---------------------------- MODULE Spec2Model ----------------------------
(***************************************************************************)
(* Timer session engine of src/App.tsx (the App component): the stage       *)
(* machine SETUP / RUNNING / PAUSED / COMPLETED, the wall-clock countdown   *)
(* driven by window.setInterval, the two asynchronous advisory fetches and  *)
(* the append to the session store.                                         *)
(*                                                                          *)
(* Modelling notes.                                                         *)
(*  - React state (useState) and refs (useRef) are the variables below.     *)
(*    Every handler is a closure of the render in which it was created: an  *)
(*    interval callback created by handleStart / handleResume calls the     *)
(*    handleComplete of that render, which reads the `session` of that      *)
(*    render.  An interval therefore carries the session it captured.       *)
(*  - A render follows every event, so a button handler always sees the     *)
(*    current state; the buttons that exist are those the current stage     *)
(*    renders (lines 321-323, 266-270), which gives the handlers' guards.   *)
(*  - Times are integer milliseconds (Date.now()).  smoothProgress is a     *)
(*    JavaScript number; it is kept as an exact fraction <<num, den>> in    *)
(*    lowest terms.  null refs are 0 (the code only tests them with `!x`    *)
(*    and `if (x)`).                                                        *)
(*  - Texts returned by the advisory service are opaque: the text answering *)
(*    the request of session s is Tip(s) / Msg(s).                          *)
(*  - Navigation (currentView) never unmounts App nor touches the timer     *)
(*    state and is left out.                                                *)
(***************************************************************************)
EXTENDS Integers, Sequences, FiniteSets

\* ------------------------------------------------------------------ bounds
MaxSessions == 2      \* handleStart is invoked at most this many times
MaxTimers   == 3      \* setInterval is invoked at most this many times
MaxMinutes  == 11     \* the wall clock is observed for this many minutes

\* ------------------------------------------------------- program constants
PRESET_TIMES == <<5, 15, 25, 45, 60>>
GoalCategory == <<"FOCUS", "CREATIVE", "CHORE", "LEARNING", "REST">>
SETUP     == "SETUP"
RUNNING   == "RUNNING"
PAUSED    == "PAUSED"
COMPLETED == "COMPLETED"
AppStage  == {SETUP, RUNNING, PAUSED, COMPLETED}

\* an absent optional field (aiMotivation?: string)
undefined == <<>>
\* useState('') of celebrationMsg
emptyMsg == <<>>
\* useRef<number | null>(null)
null == 0

\* the text the advisory service returns for the request issued by session s
Tip(s) == <<"tip", s>>
Msg(s) == <<"celebration", s>>

\* input domains of the setup form and of the clock
Intentions == {"", "Finish report"}
Deltas     == {100500, 300000}
MaxNow     == MaxMinutes * 60000

\* ------------------------------------------------------------- arithmetic
RECURSIVE GCD(_, _)
GCD(a, b) == IF b = 0 THEN a ELSE GCD(b, a % b)

\* the number n/d as a fraction in lowest terms (n >= 0, d > 0)
Frac(n, d) == LET g == GCD(n, d) IN <<n \div g, d \div g>>

\* Math.max(0, x)
MathMax0(x) == IF x < 0 THEN 0 ELSE x

\* mutant: the seconds are rounded down
MathCeil_Floor(a, b) == a \div b

\* Math.ceil(a / b) for b > 0
MathCeil(a, b) == -((-a) \div b)

\* Math.max(0, (diff / totalDurationRef.current) * 100)
Percentage(diff, total) == Frac(MathMax0(diff * 100), total)

\* (smoothProgress / 100) * totalDurationRef.current
RemainingMs(progress, total) == (progress[1] * total) \div (progress[2] * 100)

VARIABLES
    stage,              \* useState<AppStage>
    session,            \* useState<TimerSession>
    timeLeft,           \* useState: seconds shown
    smoothProgress,     \* useState: percentage shown, a fraction
    motivationLoading,  \* useState<boolean>
    celebrationMsg,     \* useState<string>
    endTimeRef,         \* useRef: due instant (ms) or null
    timerIdRef,         \* useRef: interval handle or null
    totalDurationRef,   \* useRef: total length (ms)
    now,                \* Date.now()
    intervals,          \* the browser's active intervals
    nextTimerId,        \* the handle the next setInterval returns
    tipFetches,         \* getMotivationalTip promises in flight
    celebrationFetches, \* getCelebrationMessage promises in flight
    history,            \* the session store written by saveSession
    \* history variables of the verification (read by no handler)
    sid,                \* number of handleStart calls: the session's identity
    completeCalls,      \* per session, the number of handleComplete calls
    abandoned,          \* sessions ended by handleStop
    \* ... of the session on screen (RUNNING, PAUSED or COMPLETED):
    runMs,              \* wall-clock ms it spent RUNNING
    pausedMs,           \* wall-clock ms it spent PAUSED
    pausedEver,         \* whether it has been paused
    lastDiff            \* remaining ms its display was last computed from

progVars == <<stage, session, timeLeft, smoothProgress, motivationLoading,
              celebrationMsg, endTimeRef, timerIdRef, totalDurationRef, now,
              intervals, nextTimerId, tipFetches, celebrationFetches, history>>
histVars == <<sid, completeCalls, abandoned, runMs, pausedMs, pausedEver,
              lastDiff>>
vars == <<progVars, histVars>>

Init ==
    /\ stage = SETUP
    /\ session = [durationMinutes |-> 25, category |-> "FOCUS",
                  intention |-> "", aiMotivation |-> undefined]
    /\ timeLeft = 25 * 60
    /\ smoothProgress = <<100, 1>>
    /\ motivationLoading = FALSE
    /\ celebrationMsg = emptyMsg
    /\ endTimeRef = null
    /\ timerIdRef = null
    /\ totalDurationRef = 0
    /\ now = 0
    /\ intervals = {}
    /\ nextTimerId = 1
    /\ tipFetches = {}
    /\ celebrationFetches = {}
    /\ history = <<>>
    /\ sid = 0
    /\ completeCalls = [s \in 1..MaxSessions |-> 0]
    /\ abandoned = {}
    /\ runMs = 0
    /\ pausedMs = 0
    /\ pausedEver = FALSE
    /\ lastDiff = 0


\* ---------------------------------------------------------------- helpers
\* the history variables that describe the session on screen start afresh
\* when the screen returns to the setup form
SessionLeft ==
    /\ runMs' = 0
    /\ pausedMs' = 0
    /\ pausedEver' = FALSE
    /\ lastDiff' = 0

\* clearInterval(id): the browser drops the interval with that handle
clearInterval(id) == {i \in intervals : i.id # id}

\* mutant: the callback is never scheduled
setInterval_Never(captured, s) == intervals

\* window.setInterval(callback, 30): a new active interval.  The callback
\* calls the handleComplete of the creating render, which reads that
\* render's session.
setInterval(captured, s) ==
    intervals \cup {[id |-> nextTimerId, session |-> captured, sid |-> s]}

\* saveSession(session) of services/storageService: the store receives one
\* more record, the configuration it was handed
saveSession(store, s) == Append(store, s)

\* the buttons of the setup form that are pressed: the first preset, the
\* first two categories (the form opens on 25 minutes, FOCUS)
PresetButtons   == {PRESET_TIMES[1]}
CategoryButtons == {GoalCategory[1], GoalCategory[2]}

\* ------------------------------------------------------------ setup form
\* onClick={() => setSession({ ...session, category: cat })}
selectCategory(cat) ==
    /\ stage = SETUP
    /\ sid < MaxSessions
    /\ session' = [session EXCEPT !.category = cat]
    /\ UNCHANGED <<stage, timeLeft, smoothProgress, motivationLoading,
                   celebrationMsg, endTimeRef, timerIdRef, totalDurationRef,
                   now, intervals, nextTimerId, tipFetches,
                   celebrationFetches, history>>
    /\ UNCHANGED <<sid, completeCalls, abandoned, runMs, pausedMs,
                   pausedEver, lastDiff>>

\* onClick={() => setSession({ ...session, durationMinutes: time })}
selectDuration(time) ==
    /\ stage = SETUP
    /\ sid < MaxSessions
    /\ session' = [session EXCEPT !.durationMinutes = time]
    /\ UNCHANGED <<stage, timeLeft, smoothProgress, motivationLoading,
                   celebrationMsg, endTimeRef, timerIdRef, totalDurationRef,
                   now, intervals, nextTimerId, tipFetches,
                   celebrationFetches, history>>
    /\ UNCHANGED <<sid, completeCalls, abandoned, runMs, pausedMs,
                   pausedEver, lastDiff>>

\* onChange={(e) => setSession({ ...session, intention: e.target.value })}
changeIntention(text) ==
    /\ stage = SETUP
    /\ sid < MaxSessions
    /\ session' = [session EXCEPT !.intention = text]
    /\ UNCHANGED <<stage, timeLeft, smoothProgress, motivationLoading,
                   celebrationMsg, endTimeRef, timerIdRef, totalDurationRef,
                   now, intervals, nextTimerId, tipFetches,
                   celebrationFetches, history>>
    /\ UNCHANGED <<sid, completeCalls, abandoned, runMs, pausedMs,
                   pausedEver, lastDiff>>

\* ----------------------------------------------------------- handleStart
\* mutant: the length is taken in seconds
StartDurationMs_Seconds == session.durationMinutes * 60

\* const durationMs = session.durationMinutes * 60 * 1000
StartDurationMs == session.durationMinutes * 60 * 1000

\* setTimeLeft(session.durationMinutes * 60)
StartTimeLeft == session.durationMinutes * 60

\* mutant: the percentage of the previous session is left on screen
StartProgress_Stale == smoothProgress

\* setSmoothProgress(100)
StartProgress == <<100, 1>>

\* endTimeRef.current = Date.now() + durationMs
StartEndTime == now + StartDurationMs

\* the "Start Session" button of renderSetup, up to the await
handleStart ==
    /\ stage = SETUP
    /\ sid < MaxSessions
    /\ nextTimerId <= MaxTimers
    /\ sid' = sid + 1
    /\ stage' = RUNNING
    /\ totalDurationRef' = StartDurationMs
    /\ timeLeft' = StartTimeLeft
    /\ smoothProgress' = StartProgress
    /\ endTimeRef' = StartEndTime
    /\ timerIdRef' = nextTimerId
    /\ intervals' = setInterval(session, sid + 1)
    /\ nextTimerId' = nextTimerId + 1
    /\ IF session.intention # ""
          THEN /\ motivationLoading' = TRUE
               /\ tipFetches' = tipFetches \cup {sid'}
          ELSE UNCHANGED <<motivationLoading, tipFetches>>
    /\ runMs' = 0
    /\ pausedMs' = 0
    /\ pausedEver' = FALSE
    /\ lastDiff' = StartDurationMs
    /\ UNCHANGED <<session, celebrationMsg, now, celebrationFetches, history,
                   completeCalls, abandoned>>

\* mutant: attaching the tip rebuilds the configuration without its intention
TipAttach_DropsIntention(s) ==
    [session EXCEPT !.aiMotivation = Tip(s), !.intention = ""]

\* const tip = await getMotivationalTip(...) resolves:
\* setSession(prev => ({ ...prev, aiMotivation: tip })); finally
\* setMotivationLoading(false)
TipAttach(s) == [session EXCEPT !.aiMotivation = Tip(s)]

resolveMotivationalTip(s) ==
    /\ s \in tipFetches
    /\ tipFetches' = tipFetches \ {s}
    /\ session' = TipAttach(s)
    /\ motivationLoading' = FALSE
    /\ UNCHANGED <<stage, timeLeft, smoothProgress, celebrationMsg,
                   endTimeRef, timerIdRef, totalDurationRef, now, intervals,
                   nextTimerId, celebrationFetches, history>>
    /\ UNCHANGED <<sid, completeCalls, abandoned, runMs, pausedMs,
                   pausedEver, lastDiff>>

\* mutant: the catch block shows the error in place of the tip
rejectMotivationalTip_Attaches(s) ==
    /\ s \in tipFetches
    /\ tipFetches' = tipFetches \ {s}
    /\ session' = [session EXCEPT !.aiMotivation = <<"error", s>>]
    /\ motivationLoading' = FALSE
    /\ UNCHANGED <<stage, timeLeft, smoothProgress, celebrationMsg,
                   endTimeRef, timerIdRef, totalDurationRef, now, intervals,
                   nextTimerId, celebrationFetches, history>>
    /\ UNCHANGED <<sid, completeCalls, abandoned, runMs, pausedMs,
                   pausedEver, lastDiff>>

\* the await rejects: catch (e) { console.error(e) } finally
\* setMotivationLoading(false)
rejectMotivationalTip(s) ==
    /\ s \in tipFetches
    /\ tipFetches' = tipFetches \ {s}
    /\ motivationLoading' = FALSE
    /\ UNCHANGED <<stage, session, timeLeft, smoothProgress, celebrationMsg,
                   endTimeRef, timerIdRef, totalDurationRef, now, intervals,
                   nextTimerId, celebrationFetches, history>>
    /\ UNCHANGED <<sid, completeCalls, abandoned, runMs, pausedMs,
                   pausedEver, lastDiff>>

\* ----------------------------------------------------------- handlePause
\* mutant: handlePause forgets the interval
PauseClear_Missing == intervals

\* if (timerIdRef.current) { clearInterval(timerIdRef.current); ... }
PauseClear == IF timerIdRef # null THEN clearInterval(timerIdRef) ELSE intervals

\* the body of handlePause, which tests no stage
handlePauseCall ==
    /\ intervals' = PauseClear
    /\ timerIdRef' = null
    /\ stage' = PAUSED
    /\ pausedEver' = TRUE
    /\ UNCHANGED <<session, timeLeft, smoothProgress, motivationLoading,
                   celebrationMsg, endTimeRef, totalDurationRef, now,
                   nextTimerId, tipFetches, celebrationFetches, history>>
    /\ UNCHANGED <<sid, completeCalls, abandoned, runMs, pausedMs, lastDiff>>

\* the "Pause" button of renderTimer (rendered while RUNNING)
handlePause ==
    /\ stage = RUNNING
    /\ handlePauseCall

\* ---------------------------------------------------------- handleResume
\* mutant: the due instant is kept, so the pause counts against the session
ResumeEndTime_PauseCounted == endTimeRef

\* mutant: the countdown restarts from the full length
ResumeEndTime_Full == now + totalDurationRef

\* const remainingMs = (smoothProgress / 100) * totalDurationRef.current;
\* endTimeRef.current = Date.now() + remainingMs
ResumeEndTime == now + RemainingMs(smoothProgress, totalDurationRef)

\* the body of handleResume, which tests no stage
handleResumeCall ==
    /\ nextTimerId <= MaxTimers
    /\ endTimeRef' = ResumeEndTime
    /\ stage' = RUNNING
    /\ timerIdRef' = nextTimerId
    /\ intervals' = setInterval(session, sid)
    /\ nextTimerId' = nextTimerId + 1
    /\ UNCHANGED <<session, timeLeft, smoothProgress, motivationLoading,
                   celebrationMsg, totalDurationRef, now, tipFetches,
                   celebrationFetches, history>>
    /\ UNCHANGED <<sid, completeCalls, abandoned, runMs, pausedMs,
                   pausedEver, lastDiff>>

\* the "Resume" button of renderTimer (rendered while not RUNNING, that is
\* while PAUSED: renderTimer is on screen only while RUNNING or PAUSED)
handleResume ==
    /\ stage = PAUSED
    /\ handleResumeCall

\* ------------------------------------------------------------ handleStop
\* mutant: handleStop forgets the interval
StopClear_Missing == intervals

\* if (timerIdRef.current) clearInterval(timerIdRef.current)
StopClear == IF timerIdRef # null THEN clearInterval(timerIdRef) ELSE intervals

\* setSession(prev => ({ ...prev, aiMotivation: undefined }))
StopSession == [session EXCEPT !.aiMotivation = undefined]

\* the "Abandon" button of renderTimer (rendered while RUNNING or PAUSED)
handleStop ==
    /\ stage \in {RUNNING, PAUSED}
    /\ intervals' = StopClear
    /\ stage' = SETUP
    /\ session' = StopSession
    /\ smoothProgress' = <<100, 1>>
    /\ abandoned' = abandoned \cup {sid}
    /\ SessionLeft
    /\ UNCHANGED <<timeLeft, motivationLoading, celebrationMsg, endTimeRef,
                   timerIdRef, totalDurationRef, now, nextTimerId,
                   tipFetches, celebrationFetches, history>>
    /\ UNCHANGED <<sid, completeCalls>>

\* -------------------------------------------------------- handleComplete
\* mutant: handleComplete forgets the interval
CompleteClear_Missing == intervals

\* if (timerIdRef.current) clearInterval(timerIdRef.current)
CompleteClear ==
    IF timerIdRef # null THEN clearInterval(timerIdRef) ELSE intervals

\* mutant: handleComplete forgets to save
CompleteSave_Skipped(captured) == history

\* saveSession(session): the session of the render that created the caller
CompleteSave(captured) == saveSession(history, captured)

\* handleComplete as called by the interval i, up to the await
handleComplete(i) ==
    /\ intervals' = CompleteClear
    /\ history' = CompleteSave(i.session)
    /\ stage' = COMPLETED
    /\ timeLeft' = 0
    /\ smoothProgress' = <<0, 1>>
    /\ celebrationFetches' = celebrationFetches \cup {i.sid}
    /\ completeCalls' = [completeCalls EXCEPT ![i.sid] = @ + 1]
    /\ lastDiff' = 0
    /\ UNCHANGED <<session, motivationLoading, celebrationMsg, endTimeRef,
                   timerIdRef, totalDurationRef, now, nextTimerId, tipFetches>>

\* const msg = await getCelebrationMessage(session.category) resolves:
\* setCelebrationMsg(msg)
resolveCelebrationMessage(s) ==
    /\ s \in celebrationFetches
    /\ celebrationFetches' = celebrationFetches \ {s}
    /\ celebrationMsg' = Msg(s)
    /\ UNCHANGED <<stage, session, timeLeft, smoothProgress,
                   motivationLoading, endTimeRef, timerIdRef,
                   totalDurationRef, now, intervals, nextTimerId, tipFetches,
                   history>>
    /\ UNCHANGED <<sid, completeCalls, abandoned, runMs, pausedMs,
                   pausedEver, lastDiff>>

\* the await rejects: handleComplete ends there, nothing is set
rejectCelebrationMessage(s) ==
    /\ s \in celebrationFetches
    /\ celebrationFetches' = celebrationFetches \ {s}
    /\ UNCHANGED <<stage, session, timeLeft, smoothProgress,
                   motivationLoading, celebrationMsg, endTimeRef, timerIdRef,
                   totalDurationRef, now, intervals, nextTimerId, tipFetches,
                   history>>
    /\ UNCHANGED <<sid, completeCalls, abandoned, runMs, pausedMs,
                   pausedEver, lastDiff>>

\* ------------------------------------------------------ interval callback
\* the callback handed to setInterval by handleStart and by handleResume
intervalTick(i) ==
    /\ i \in intervals
    /\ IF endTimeRef = null
          THEN UNCHANGED <<progVars, completeCalls, lastDiff>>
          ELSE LET diff == endTimeRef - now IN
               IF diff <= 0
                  THEN handleComplete(i)
                  ELSE /\ smoothProgress' = Percentage(diff, totalDurationRef)
                       /\ timeLeft' = MathCeil(diff, 1000)
                       /\ lastDiff' = diff
                       /\ UNCHANGED <<stage, session, motivationLoading,
                                      celebrationMsg, endTimeRef, timerIdRef,
                                      totalDurationRef, now, intervals,
                                      nextTimerId, tipFetches,
                                      celebrationFetches, history,
                                      completeCalls>>
    /\ UNCHANGED <<sid, abandoned, runMs, pausedMs, pausedEver>>

\* ------------------------------------------------------------ reset, clock
\* "Start New Session" of renderCompleted: onClick={() => setStage(SETUP)}
startNewSession ==
    /\ stage = COMPLETED
    /\ stage' = SETUP
    /\ SessionLeft
    /\ UNCHANGED <<session, timeLeft, smoothProgress, motivationLoading,
                   celebrationMsg, endTimeRef, timerIdRef, totalDurationRef,
                   now, intervals, nextTimerId, tipFetches,
                   celebrationFetches, history>>
    /\ UNCHANGED <<sid, completeCalls, abandoned>>

\* the wall clock moves on; no callback runs meanwhile (ticks may be late)
advanceClock(d) ==
    /\ now + d <= MaxNow
    /\ now' = now + d
    /\ runMs' = IF stage = RUNNING THEN runMs + d ELSE runMs
    /\ pausedMs' = IF stage = PAUSED THEN pausedMs + d ELSE pausedMs
    /\ UNCHANGED <<stage, session, timeLeft, smoothProgress,
                   motivationLoading, celebrationMsg, endTimeRef, timerIdRef,
                   totalDurationRef, intervals, nextTimerId, tipFetches,
                   celebrationFetches, history>>
    /\ UNCHANGED <<sid, completeCalls, abandoned, pausedEver, lastDiff>>

Next ==
    \/ \E cat \in CategoryButtons : selectCategory(cat)
    \/ \E time \in PresetButtons : selectDuration(time)
    \/ \E text \in Intentions : changeIntention(text)
    \/ handleStart
    \/ \E s \in 1..MaxSessions : resolveMotivationalTip(s)
    \/ \E s \in 1..MaxSessions : rejectMotivationalTip(s)
    \/ handlePause
    \/ handleResume
    \/ handleStop
    \/ \E i \in intervals : intervalTick(i)
    \/ \E s \in 1..MaxSessions : resolveCelebrationMessage(s)
    \/ \E s \in 1..MaxSessions : rejectCelebrationMessage(s)
    \/ startNewSession
    \/ \E d \in Deltas : advanceClock(d)

Spec == Init /\ [][Next]_vars

\* ------------------------------------------------- the handlers, ungated
\* handlePause and handleResume test no stage themselves: only the button
\* rendered at lines 266-270 keeps them to RUNNING and PAUSED.  Here they are
\* also called in the other stage, from a state the application reaches;
\* the run is followed until such a call has left a second interval.
pauseWhilePaused ==
    /\ stage = PAUSED
    /\ handlePauseCall

resumeWhileRunning ==
    /\ stage = RUNNING
    /\ handleResumeCall

NextUngated ==
    \/ Cardinality(intervals) <= 1 /\ Next
    \/ pauseWhilePaused
    \/ resumeWhileRunning

SpecUngated == Init /\ [][NextUngated]_vars


\* ================================================================= claims
\* a step of the interval callback
Tick == \E i \in intervals : intervalTick(i)

\* a step that enters stage COMPLETED
Completes == stage # COMPLETED /\ stage' = COMPLETED

\* what handleComplete leaves on screen for the session on screen
CompletedOnce ==
    /\ stage' = COMPLETED
    /\ timeLeft' = 0
    /\ smoothProgress' = <<0, 1>>
    /\ completeCalls'[sid] = 1

NeverTwice == \A s \in 1..MaxSessions : completeCalls'[s] <= 1

\* C1 (as stated): no session's handleComplete runs twice, and a tick that
\* fires while RUNNING once the session has spent at least totalDurationMs of
\* wall-clock time RUNNING invokes handleComplete, leaving stage COMPLETED,
\* remainingSeconds 0 and remainingPercentage 0.
C1_CompleteAfterRunningT ==
    [][/\ NeverTwice
       /\ (Tick /\ stage = RUNNING /\ runMs >= totalDurationRef)
             => CompletedOnce]_vars

\* C1 (amended): no session's handleComplete runs twice, and a tick that
\* fires while RUNNING once the clock has reached endTimestamp (which, for a
\* session never paused, is once it has spent totalDurationMs RUNNING)
\* invokes handleComplete, leaving stage COMPLETED, remainingSeconds 0 and
\* remainingPercentage 0.
C1_CompleteOnceAtDeadline ==
    [][/\ NeverTwice
       /\ (/\ Tick
           /\ stage = RUNNING
           /\ \/ now >= endTimeRef
              \/ ~pausedEver /\ runMs >= totalDurationRef)
             => CompletedOnce]_vars

\* a never-paused session completed after its full length
C1_Witness ==
    /\ stage = COMPLETED
    /\ ~pausedEver
    /\ runMs >= totalDurationRef
    /\ completeCalls[sid] = 1
    /\ timeLeft = 0
    /\ smoothProgress = <<0, 1>>

\* C2: pause exclusion.  handlePause and the time spent PAUSED leave
\* remainingPercentage as it was, handleResume leaves it too, and right
\* after handleResume the remaining time endTimestamp - now is the remaining
\* time the frozen display was computed from, which is
\* remainingPercentage / 100 * totalDurationMs, whatever the pause lasted.
C2_PauseExcluded ==
    [][/\ (stage = RUNNING /\ stage' = PAUSED)
             => smoothProgress' = smoothProgress
       /\ (stage = PAUSED /\ stage' = PAUSED)
             => smoothProgress' = smoothProgress
       /\ (stage = PAUSED /\ stage' = RUNNING)
             => /\ smoothProgress' = smoothProgress
                /\ endTimeRef' - now' = lastDiff
                /\ (endTimeRef' - now') * 100 * smoothProgress[2]
                      = smoothProgress[1] * totalDurationRef]_vars

\* resumed after a pause that lasted, from a display below 100 percent
C2_Witness ==
    /\ stage = RUNNING
    /\ pausedEver
    /\ pausedMs > 0
    /\ smoothProgress # <<100, 1>>
    /\ endTimeRef - now = lastDiff
    /\ timerIdRef = nextTimerId - 1

\* C3: a step into COMPLETED appends exactly one record, carrying the
\* session's durationMinutes, category and intention, and no other step
\* (handleStop among them) changes the store.
C3_OneRecordPerCompletion ==
    [][IF Completes
          THEN /\ Len(history') = Len(history) + 1
               /\ SubSeq(history', 1, Len(history)) = history
               /\ LET r == history'[Len(history')] IN
                    /\ r.durationMinutes = session.durationMinutes
                    /\ r.category = session.category
                    /\ r.intention = session.intention
          ELSE history' = history]_vars

\* one session abandoned, the next one completed: one record, the second's
C3_Witness ==
    /\ stage = COMPLETED
    /\ abandoned = {1}
    /\ sid = 2
    /\ Len(history) = 1
    /\ history[1].durationMinutes = 5
    /\ history[1].category = "CREATIVE"
    /\ history[1].intention = "Finish report"

\* C4: the record persisted by a step into COMPLETED carries the
\* aiMotivation attached to the configuration at that moment.
C4_RecordCarriesCurrentTip ==
    [][Completes =>
          history'[Len(history')].aiMotivation = session.aiMotivation]_vars

\* C5: a tip that resolves after its session was abandoned, or completed and
\* reset, is discarded: the configuration's aiMotivation stays as it was.
C5_StaleTipDiscarded ==
    [][\A s \in tipFetches :
          (s \notin tipFetches' /\ (s # sid \/ stage = SETUP))
             => session'.aiMotivation = session.aiMotivation]_vars

\* C6: handleStop from RUNNING or PAUSED leaves stage SETUP with
\* aiMotivation absent, remainingPercentage 100 and no interval active, and
\* handleComplete never runs for an abandoned session.
C6_AbandonIsFinal ==
    [][/\ (stage \in {RUNNING, PAUSED} /\ stage' = SETUP)
             => /\ session'.aiMotivation = undefined
                /\ smoothProgress' = <<100, 1>>
                /\ intervals' = {}
       /\ \A s \in abandoned' : completeCalls'[s] = 0]_vars

\* a session abandoned while RUNNING whose due instant has long passed
C6_Witness ==
    /\ stage = SETUP
    /\ sid \in abandoned
    /\ endTimeRef # null
    /\ timerIdRef # null
    /\ now > endTimeRef
    /\ completeCalls[sid] = 0
    /\ intervals = {}
    /\ smoothProgress = <<100, 1>>
    /\ session.aiMotivation = undefined

\* C7: while PAUSED, remainingPercentage and remainingSeconds are those the
\* last tick before handlePause computed, and no step changes them.
C7_FrozenWhilePaused ==
    [][/\ (stage = RUNNING /\ stage' = PAUSED)
             => timeLeft' = timeLeft /\ smoothProgress' = smoothProgress
       /\ (stage = PAUSED /\ stage' = PAUSED)
             => timeLeft' = timeLeft /\ smoothProgress' = smoothProgress
       /\ stage' = PAUSED
             => /\ timeLeft' = MathCeil(lastDiff', 1000)
                /\ smoothProgress' = Percentage(lastDiff', totalDurationRef')
       ]_vars

\* paused mid-run; the clock ran past the due instant and the tip arrived
C7_Witness ==
    /\ stage = PAUSED
    /\ pausedMs > 0
    /\ now > endTimeRef
    /\ timeLeft > 0
    /\ lastDiff < totalDurationRef
    /\ session.aiMotivation = Tip(sid)
    /\ tipFetches = {}

\* C8: right after handleStart the stage is RUNNING, remainingPercentage is
\* 100, remainingSeconds is durationMinutes * 60, totalDurationMs is
\* durationMinutes * 60000 (> 0) and endTimestamp is now + totalDurationMs,
\* whatever the previous session left in them.
C8_StartState ==
    [][(stage = SETUP /\ stage' # SETUP)
          => /\ stage' = RUNNING
             /\ session.durationMinutes > 0
             /\ smoothProgress' = <<100, 1>>
             /\ timeLeft' = session.durationMinutes * 60
             /\ totalDurationRef' = session.durationMinutes * 60000
             /\ endTimeRef' = now' + totalDurationRef']_vars

\* a second session just started after a completed one (which left 0 / 0)
C8_Witness ==
    /\ stage = RUNNING
    /\ sid = 2
    /\ completeCalls[1] = 1
    /\ runMs = 0
    /\ endTimeRef = now + totalDurationRef
    /\ smoothProgress = <<100, 1>>
    /\ timeLeft = 300

\* C9: within one session remainingSeconds never increases, from
\* handleStart to handleComplete, across pauses and resumes.
C9_SecondsNonIncreasing ==
    [][(sid' = sid /\ stage \in {RUNNING, PAUSED} /\ stage' # SETUP)
          => timeLeft' <= timeLeft]_vars

\* a tick after a resume that followed a pause that lasted
C9_Witness ==
    /\ stage = RUNNING
    /\ pausedEver
    /\ pausedMs > 0
    /\ lastDiff = endTimeRef - now
    /\ runMs + lastDiff = totalDurationRef
    /\ timeLeft = 99

\* C10: the "Start New Session" step leaves the celebration message empty,
\* and so does every step into COMPLETED.
C10_ResetClearsCelebration ==
    [][/\ (stage = COMPLETED /\ stage' = SETUP) => celebrationMsg' = emptyMsg
       /\ Completes => celebrationMsg' = emptyMsg]_vars

C11_PauseWhilePausedIsNoOp ==
    [][pauseWhilePaused
          => UNCHANGED <<stage, endTimeRef, smoothProgress, timeLeft,
                         intervals>>]_vars

\* C12: at most one interval is active, and it is the one timerIdRef holds
\* (so the next handler can clear it): handleStart and handleResume never
\* leave an older interval running beside the one they create.
C12_AtMostOneInterval ==
    /\ Cardinality(intervals) <= 1
    /\ \A i \in intervals : i.id = timerIdRef

\* the third interval created (after start, pause, resume, abandon, start,
\* or the like) runs alone
C12_Witness ==
    /\ stage = RUNNING
    /\ nextTimerId = 4
    /\ Cardinality(intervals) = 1
    /\ \A i \in intervals : i.id = 3

C20_IntervalIffRunning ==
    /\ stage = RUNNING => Cardinality(intervals) = 1
    /\ stage # RUNNING => intervals = {}

\* a session completed after a pause and a resume: its interval is gone
\* although timerIdRef still holds the handle
C20_Witness ==
    /\ stage = COMPLETED
    /\ pausedEver
    /\ timerIdRef # null
    /\ intervals = {}

\* C14: the stage changes only along SETUP -> RUNNING, RUNNING -> PAUSED,
\* PAUSED -> RUNNING, RUNNING or PAUSED -> SETUP, RUNNING -> COMPLETED and
\* COMPLETED -> SETUP; COMPLETED is entered only from RUNNING, by a tick that
\* finds the due instant reached, and handleComplete runs only from such a
\* tick.
C14_StageTransitions ==
    [][/\ stage' # stage =>
             \/ stage = SETUP /\ stage' = RUNNING
             \/ stage = RUNNING /\ stage' = PAUSED
             \/ stage = PAUSED /\ stage' = RUNNING
             \/ stage \in {RUNNING, PAUSED} /\ stage' = SETUP
             \/ stage = RUNNING /\ stage' = COMPLETED
             \/ stage = COMPLETED /\ stage' = SETUP
       /\ (Completes \/ completeCalls' # completeCalls) =>
             /\ Tick
             /\ stage = RUNNING
             /\ endTimeRef # null
             /\ endTimeRef - now <= 0]_vars

\* the second session was paused, resumed and completed after the first was
\* abandoned
C14_Witness ==
    /\ stage = COMPLETED
    /\ sid = 2
    /\ abandoned = {1}
    /\ pausedEver
    /\ completeCalls[2] = 1
    /\ Len(history) = 1

\* C16: always 0 <= remainingPercentage <= 100 and remainingSeconds >= 0;
\* right after a tick that finds diff > 0 the percentage is exactly
\* diff / totalDurationMs * 100 and the seconds are exactly ceil(diff / 1000).
C16_DisplayInRangeAndExact ==
    /\ [](/\ smoothProgress[1] >= 0
          /\ smoothProgress[2] > 0
          /\ smoothProgress[1] <= 100 * smoothProgress[2]
          /\ timeLeft >= 0)
    /\ [][(Tick /\ endTimeRef # null /\ endTimeRef - now > 0) =>
             LET diff == endTimeRef - now IN
             /\ smoothProgress'[1] * totalDurationRef
                    = diff * 100 * smoothProgress'[2]
             /\ (timeLeft' - 1) * 1000 < diff
             /\ diff <= timeLeft' * 1000]_vars

\* a tick has found 199500 ms left of 300000: 66.5 % and 200 seconds
C16_Witness ==
    /\ stage = RUNNING
    /\ totalDurationRef = 300000
    /\ lastDiff = 199500
    /\ smoothProgress = <<133, 2>>
    /\ timeLeft = 200

\* C18: from handleStart until the session has ended (COMPLETED or
\* abandoned), no step changes durationMinutes, category or intention of the
\* configuration; only aiMotivation may change.
C18_ConfigurationFrozen ==
    [][(stage \in {RUNNING, PAUSED} \/ stage' \in {RUNNING, PAUSED}) =>
          /\ session'.durationMinutes = session.durationMinutes
          /\ session'.category = session.category
          /\ session'.intention = session.intention]_vars

\* a configured session that was paused and resumed and then received its tip
C18_Witness ==
    /\ stage = RUNNING
    /\ pausedEver
    /\ session = [durationMinutes |-> 5, category |-> "CREATIVE",
                  intention |-> "Finish report", aiMotivation |-> Tip(sid)]
    /\ lastDiff < totalDurationRef

\* a step in which the tip request of session s ends without its text
TipFetchFails(s) ==
    /\ s \in tipFetches
    /\ s \notin tipFetches'
    /\ session'.aiMotivation # Tip(s)

\* a step in which the celebration request of session s ends without its text
CelebrationFetchFails(s) ==
    /\ s \in celebrationFetches
    /\ s \notin celebrationFetches'
    /\ celebrationMsg' # Msg(s)

C17_TipOnlyFromOwnFetch ==
    /\ stage \in {RUNNING, PAUSED, COMPLETED} =>
          /\ session.aiMotivation \in {undefined, Tip(sid)}
          /\ sid \in tipFetches => session.aiMotivation = undefined
          /\ session.intention = "" => session.aiMotivation = undefined
    /\ \A k \in 1..Len(history) :
          history[k].intention = "" => history[k].aiMotivation = undefined

\* ---------------------------------------------------- ticks keep firing
\* the wall clock moves on
ClockAdvances == \E d \in Deltas : advanceClock(d)

\* window.setInterval keeps calling the callback of an active interval
\* (late, perhaps, but again and again) and time keeps passing
SpecFair == Init /\ [][Next]_vars /\ WF_vars(Tick) /\ WF_vars(ClockAdvances)

\* the due instant lies within the clock range of the model
DueWithinRange == \E d \in Deltas : endTimeRef + d <= MaxNow

\* C15: a RUNNING session that is neither paused nor abandoned eventually
\* reaches COMPLETED, whatever ticks were late or skipped and whether or not
\* its tip request ever resolves.
C15_RunningEventuallyCompletes ==
    (stage = RUNNING /\ DueWithinRange)
        ~> (stage = COMPLETED \/ stage = PAUSED \/ stage = SETUP)

\* a session that was never paused completed at a tick that came 102 seconds
\* late, its tip request still pending
C15_Witness ==
    /\ stage = COMPLETED
    /\ sid = 1
    /\ ~pausedEver
    /\ runMs = 402000
    /\ totalDurationRef = 300000
    /\ tipFetches = {1}

\* C21: motivationLoading is true exactly while a tip request is in flight;
\* in particular motivationLoading = FALSE implies that no tip request is
\* still pending.
C21_LoadingIffFetchPending ==
    /\ motivationLoading => tipFetches # {}
    /\ ~motivationLoading => tipFetches = {}

=============================================================================
